---- MODULE Spec2Model ----
(***************************************************************************)
(* Model of backend/main.py: the upload handler (upload_file), the text    *)
(* extraction dispatcher (extract_text_from_file) and the lookup handler   *)
(* (get_extracted_text), with the in-memory mapping _upload_store and the  *)
(* storage directory as state.                                             *)
(*                                                                         *)
(* Strings that the code takes apart (filenames, extensions, the 400       *)
(* detail) are sequences of one-character strings; file contents are       *)
(* sequences of byte values 0..255; decoded text is a sequence of code     *)
(* points.  Messages the code never takes apart are plain strings.         *)
(***************************************************************************)
EXTENDS Integers, Sequences, FiniteSets, TLC

VARIABLES upload_store, storage, next_id, join_order, open_handles,
          issued, last, tasks, looker

vars == <<upload_store, storage, next_id, join_order, open_handles,
          issued, last, tasks, looker>>

\* Number of upload requests a behaviour may hold.
MaxUploads == 2

\* ------------------------------------------------------------------------
\* Configuration (main.py lines 12-14)

STORAGE_DIR == "backend/storage"

ALLOWED_EXTENSIONS == {<<"p", "d", "f">>, <<"t", "x", "t">>}

\* The orders in which iterating the set ALLOWED_EXTENSIONS can yield its
\* elements: Python fixes no order for a set of str, it follows the hash
\* seed of the process.
SetIterationOrders ==
    {<<a, b>> : a \in ALLOWED_EXTENSIONS, b \in ALLOWED_EXTENSIONS} \ {<<a, a>> : a \in ALLOWED_EXTENSIONS}

\* ------------------------------------------------------------------------
\* String helpers: str.lower, str.upper, str.split(".")[-1], str.join

LowerChar(c) ==
    CASE c = "A" -> "a" [] c = "D" -> "d" [] c = "F" -> "f" [] c = "P" -> "p"
      [] c = "T" -> "t" [] c = "X" -> "x" [] OTHER -> c

UpperChar(c) ==
    CASE c = "a" -> "A" [] c = "d" -> "D" [] c = "f" -> "F" [] c = "p" -> "P"
      [] c = "t" -> "T" [] c = "x" -> "X" [] OTHER -> c

Lower(s) == [i \in 1..Len(s) |-> LowerChar(s[i])]

Upper(s) == [i \in 1..Len(s) |-> UpperChar(s[i])]

DotPositions(s) == {i \in 1..Len(s) : s[i] = "."}

Max(S) == CHOOSE m \in S : \A x \in S : x <= m

\* s.split(".")[-1]: the part after the last ".", and the whole of s when it
\* holds no "." (split then returns the one-element list [s]).
SplitLast(s) ==
    IF DotPositions(s) = {} THEN s
    ELSE SubSeq(s, Max(DotPositions(s)) + 1, Len(s))

RECURSIVE Join(_, _)
Join(parts, sep) ==
    IF Len(parts) = 0 THEN <<>>
    ELSE IF Len(parts) = 1 THEN parts[1]
    ELSE parts[1] \o sep \o Join(Tail(parts), sep)

\* A filename as the request supplies it: absent (None) or a string.
NoFilename == [given |-> FALSE, chars |-> <<>>]

Name(chars) == [given |-> TRUE, chars |-> chars]

\* file.filename.split(".")[-1].lower() if file.filename else ""
\* (an absent filename, None, and the empty filename are both falsy)
DeriveExtension(filename) ==
    IF ~filename.given \/ filename.chars = <<>> THEN <<>>
    ELSE Lower(SplitLast(filename.chars))

\* f"Invalid file type. Only {', '.join(ALLOWED_EXTENSIONS).upper()} files are allowed."
InvalidTypeDetail(order) ==
    <<"Invalid file type. Only ">> \o Upper(Join(order, <<",", " ">>)) \o <<" files are allowed.">>

\* os.path.join(STORAGE_DIR, f"{doc_id}.{file_extension}")
StoragePath(doc_id, ext) == [dir |-> STORAGE_DIR, id |-> doc_id, ext |-> ext]

\* ------------------------------------------------------------------------
\* Text extraction (extract_text_from_file, lines 22-45)

\* Decoding of UTF-8, strict: one-byte and two-byte sequences are decoded,
\* every other byte is a decoding error.  Result: [ok, text].
RECURSIVE Utf8Decode(_)
Utf8Decode(bytes) ==
    IF Len(bytes) = 0 THEN [ok |-> TRUE, text |-> <<>>]
    ELSE IF bytes[1] < 128 THEN
        LET rest == Utf8Decode(Tail(bytes))
        IN  [ok |-> rest.ok, text |-> IF rest.ok THEN <<bytes[1]>> \o rest.text ELSE <<>>]
    ELSE IF bytes[1] >= 194 /\ bytes[1] <= 223 /\ Len(bytes) >= 2
            /\ bytes[2] >= 128 /\ bytes[2] <= 191 THEN
        LET rest == Utf8Decode(SubSeq(bytes, 3, Len(bytes)))
        IN  [ok |-> rest.ok,
             text |-> IF rest.ok
                      THEN <<(bytes[1] - 192) * 64 + (bytes[2] - 128)>> \o rest.text
                      ELSE <<>>]
    ELSE [ok |-> FALSE, text |-> <<>>]

\* What reading a file opened in text mode ("r", newline=None) does to the
\* decoded text: "\r\n" and a lone "\r" both become "\n".
RECURSIVE TranslateNewlines(_)
TranslateNewlines(text) ==
    IF Len(text) = 0 THEN <<>>
    ELSE IF text[1] = 13 THEN
        IF Len(text) >= 2 /\ text[2] = 10
        THEN <<10>> \o TranslateNewlines(SubSeq(text, 3, Len(text)))
        ELSE <<10>> \o TranslateNewlines(Tail(text))
    ELSE <<text[1]>> \o TranslateNewlines(Tail(text))

\* with open(file_path, "r", encoding="utf-8") as f: return f.read()
\* The with block closes f on both paths: no handle stays open.
ExtractTxt(bytes) ==
    LET d == Utf8Decode(bytes)
    IN  IF d.ok THEN [ok |-> TRUE, text |-> TranslateNewlines(d.text), leaked |-> 0]
        ELSE [ok |-> FALSE, text |-> <<>>, leaked |-> 0]

\* fitz.open(file_path).  The library is abstracted to a toy page format:
\* a file is a document iff it starts with the byte 37 ("%", as in %PDF),
\* and every byte after it is one page.
FitzOpen(bytes) ==
    IF Len(bytes) >= 1 /\ bytes[1] = 37
    THEN [ok |-> TRUE, pages |-> Tail(bytes)]
    ELSE [ok |-> FALSE, pages |-> <<>>]

\* page.get_text(): the page byte 255 is a page whose rendering raises,
\* any other page renders as the one character it holds.
PageGetText(page) ==
    IF page = 255 THEN [ok |-> FALSE, text |-> <<>>]
    ELSE [ok |-> TRUE, text |-> <<page>>]

\* for page in doc: text_content += page.get_text()
\* acc is text_content; the loop ends at the first page that raises.
RECURSIVE PageLoop(_, _)
PageLoop(pages, acc) ==
    IF Len(pages) = 0 THEN [ok |-> TRUE, text |-> acc]
    ELSE LET t == PageGetText(pages[1])
         IN  IF t.ok THEN PageLoop(Tail(pages), acc \o t.text)
             ELSE [ok |-> FALSE, text |-> <<>>]

\* The pdf branch: doc.close() is reached only when the loop completes, so
\* a raising page leaves the document handle open (leaked = 1).
ExtractPdf(bytes) ==
    LET doc == FitzOpen(bytes)
    IN  IF ~doc.ok THEN [ok |-> FALSE, text |-> <<>>, leaked |-> 0]
        ELSE LET r == PageLoop(doc.pages, <<>>)
             IN  IF r.ok THEN [ok |-> TRUE, text |-> r.text, leaked |-> 0]
                 ELSE [ok |-> FALSE, text |-> <<>>, leaked |-> 1]

\* extract_text_from_file(file_path, file_ext), given the bytes at file_path.
\* ok = FALSE is the HTTPException(500, "Failed to extract text from file.")
\* that the except clause raises for every exception.
ExtractText(bytes, file_ext) ==
    IF file_ext = <<"p", "d", "f">> THEN ExtractPdf(bytes)
    ELSE IF file_ext = <<"t", "x", "t">> THEN ExtractTxt(bytes)
    ELSE [ok |-> FALSE, text |-> <<>>, leaked |-> 0]

\* ------------------------------------------------------------------------
\* Requests and the environment

\* Filenames a client may send: absent, "", "pdf", "n.d.txt", "A.PDF" and
\* "r.doc".
Filenames ==
    { NoFilename,
      Name(<<>>),
      Name(<<"p", "d", "f">>),
      Name(<<"n", ".", "d", ".", "t", "x", "t">>),
      Name(<<"A", ".", "P", "D", "F">>),
      Name(<<"r", ".", "d", "o", "c">>) }

\* Uploaded contents: empty, "a\r\n", the two bytes of U+00E9, a two-page
\* document (as text, "%ab") and a document whose second page cannot be
\* rendered (as text, not UTF-8: it holds the byte 0xFF).
Bodies ==
    { <<>>,
      <<97, 13, 10>>,
      <<195, 169>>,
      <<37, 97, 98>>,
      <<37, 97, 255>> }

\* with open(file_path, "wb") as buffer: shutil.copyfileobj(file.file, buffer)
\* open may raise before the file exists; the copy may raise once open has
\* created the file.  The contents here are shorter than one copy buffer, so
\* a failing copy has written nothing yet: it leaves the file empty.
CopyOutcomes(body) ==
    { [ok |-> TRUE, created |-> TRUE, written |-> body],
      [ok |-> FALSE, created |-> FALSE, written |-> <<>>],
      [ok |-> FALSE, created |-> TRUE, written |-> <<>>] }

\* os.remove(file_path) either removes the file or raises OSError.
RemoveOutcomes == {"removed", "oserror"}

\* The file system after the write of `written` to `path`.
WriteFile(fs, path, written) ==
    [q \in DOMAIN fs \cup {path} |-> IF q = path THEN written ELSE fs[q]]

\* A cleanup that removes nothing.
RemoveFileSkipped(fs, path) == fs

\* The file system after a successful os.remove(path).
RemoveFile(fs, path) == [q \in DOMAIN fs \ {path} |-> fs[q]]

\* A store that rebinds the mapping to one holding the new record alone.
StoreInsertRebinds(store, doc_id, record) == [i \in {doc_id} |-> record]

\* _upload_store[doc_id] = record
StoreInsert(store, doc_id, record) ==
    [i \in DOMAIN store \cup {doc_id} |-> IF i = doc_id THEN record ELSE store[i]]

\* The dict the handler stores (lines 77-82).
UploadRecord(filename, path, ext, text) ==
    [filename |-> filename, filepath |-> path, extension |-> ext, text |-> text]

\* A response: the HTTP status and the fields of its JSON body.
Response(op, doc_id, status, detail, filename, text) ==
    [op |-> op, doc_id |-> doc_id, status |-> status, detail |-> detail,
     filename |-> filename, text |-> text]

UploadResponse(doc_id, status, detail) ==
    Response("upload", doc_id, status, detail, NoFilename, <<>>)

MsgUploaded == <<"File uploaded and text extracted successfully.">>
MsgCouldNotSave == <<"Could not save file: ", "e">>
MsgExtractFailed == <<"Failed to extract text from file.">>
MsgNotFound == <<"Document ID not found.">>
\* What the server answers when a handler ends with an exception that is no
\* HTTPException: status 500 and a body that is not the JSON detail object.
MsgUnhandled == <<"Internal Server Error">>

\* ------------------------------------------------------------------------
\* State

\* What one upload request did, kept per identifier.
\* wrote: the copy to the storage path completed; extracted: the extraction
\* returned text; text: that text; removal: what os.remove did, if called.
Outcome(filename, ext, wrote, extracted, text, removal, resp) ==
    [filename |-> filename, ext |-> ext, wrote |-> wrote, extracted |-> extracted,
     text |-> text, removal |-> removal, resp |-> resp]

Remember(history, doc_id, outcome) ==
    [i \in DOMAIN history \cup {doc_id} |-> IF i = doc_id THEN outcome ELSE history[i]]

NoResponse == Response("none", 0, 0, <<>>, NoFilename, <<>>)

\* An upload request being handled: its position in upload_file and the
\* handler's local variables.
Task(pc, filename, doc_id, ext, text, resp) ==
    [pc |-> pc, filename |-> filename, doc_id |-> doc_id, ext |-> ext,
     text |-> text, resp |-> resp]

IdleTask == Task("idle", NoFilename, 0, <<>>, <<>>, NoResponse)

\* The lookup request being handled: its position in get_extracted_text and
\* the filename it has read so far.
Looker(pc, doc_id, filename, resp) ==
    [pc |-> pc, doc_id |-> doc_id, filename |-> filename, resp |-> resp]

IdleLooker == Looker("idle", 0, NoFilename, NoResponse)

Init ==
    /\ upload_store = <<>>
    /\ storage = <<>>
    /\ next_id = 1
    /\ join_order \in SetIterationOrders
    /\ open_handles = 0
    /\ issued = <<>>
    /\ last = NoResponse
    /\ tasks = [t \in 1..MaxUploads |-> IdleTask]
    /\ looker = IdleLooker

\* ------------------------------------------------------------------------
\* The handlers, one request at a time

\* upload_file, when the extension is rejected (lines 51-59).
UploadInvalid(filename, body) ==
    LET doc_id == next_id
        ext == DeriveExtension(filename)
        resp == UploadResponse(doc_id, 400, InvalidTypeDetail(join_order))
    IN  /\ next_id <= MaxUploads
        /\ ext \notin ALLOWED_EXTENSIONS
        /\ next_id' = next_id + 1
        /\ last' = resp
        /\ issued' = Remember(issued, doc_id,
                        Outcome(filename, ext, FALSE, FALSE, <<>>, "none", resp))
        /\ UNCHANGED <<upload_store, storage, join_order, open_handles, tasks, looker>>

\* upload_file, when storing the bytes fails (lines 51-72): the handler
\* raises HTTPException(500) after file.close(), and removes nothing.
UploadStoreFails(filename, body) ==
    LET doc_id == next_id
        ext == DeriveExtension(filename)
        path == StoragePath(doc_id, ext)
        resp == UploadResponse(doc_id, 500, MsgCouldNotSave)
    IN  /\ next_id <= MaxUploads
        /\ ext \in ALLOWED_EXTENSIONS
        /\ \E c \in CopyOutcomes(body) :
              /\ ~c.ok
              /\ storage' = IF c.created THEN WriteFile(storage, path, c.written) ELSE storage
        /\ next_id' = next_id + 1
        /\ last' = resp
        /\ issued' = Remember(issued, doc_id,
                        Outcome(filename, ext, FALSE, FALSE, <<>>, "none", resp))
        /\ UNCHANGED <<upload_store, join_order, open_handles, tasks, looker>>

\* upload_file, when the bytes are stored and extraction succeeds
\* (lines 51-82, 88).
UploadSucceeds(filename, body) ==
    LET doc_id == next_id
        ext == DeriveExtension(filename)
        path == StoragePath(doc_id, ext)
        x == ExtractText(body, ext)
        resp == UploadResponse(doc_id, 201, MsgUploaded)
    IN  /\ next_id <= MaxUploads
        /\ ext \in ALLOWED_EXTENSIONS
        /\ x.ok
        /\ storage' = WriteFile(storage, path, body)
        /\ upload_store' = StoreInsert(upload_store, doc_id,
                              UploadRecord(filename, path, ext, x.text))
        /\ open_handles' = open_handles + x.leaked
        /\ next_id' = next_id + 1
        /\ last' = resp
        /\ issued' = Remember(issued, doc_id,
                        Outcome(filename, ext, TRUE, TRUE, x.text, "none", resp))
        /\ UNCHANGED <<join_order, tasks, looker>>

\* upload_file, when the bytes are stored and extraction fails (lines
\* 51-76, 83-86): the file exists, os.remove either removes it, and the bare
\* raise re-raises the HTTPException of the extraction, or raises OSError,
\* which then leaves the handler in place of the HTTPException.
UploadExtractFails(filename, body) ==
    LET doc_id == next_id
        ext == DeriveExtension(filename)
        path == StoragePath(doc_id, ext)
        written == WriteFile(storage, path, body)
        x == ExtractText(written[path], ext)
    IN  /\ next_id <= MaxUploads
        /\ ext \in ALLOWED_EXTENSIONS
        /\ ~x.ok
        /\ open_handles' = open_handles + x.leaked
        /\ next_id' = next_id + 1
        /\ \E rm \in RemoveOutcomes :
              LET resp == IF rm = "removed"
                          THEN UploadResponse(doc_id, 500, MsgExtractFailed)
                          ELSE UploadResponse(doc_id, 500, MsgUnhandled)
              IN  /\ storage' = IF rm = "removed" THEN RemoveFile(written, path) ELSE written
                  /\ last' = resp
                  /\ issued' = Remember(issued, doc_id,
                                  Outcome(filename, ext, TRUE, FALSE, <<>>, rm, resp))
        /\ UNCHANGED <<upload_store, join_order, tasks, looker>>

\* upload_file(file)
Upload(filename, body) ==
    \/ UploadInvalid(filename, body)
    \/ UploadStoreFails(filename, body)
    \/ UploadSucceeds(filename, body)
    \/ UploadExtractFails(filename, body)

\* Identifiers a client may ask for: every one that can be issued, and one
\* that never is.
LookupIds == 1..(MaxUploads + 1)

\* A lookup that finds no identifier at all.
LookupResponseNeverFinds(store, doc_id) ==
    Response("getText", doc_id, 404, MsgNotFound, NoFilename, <<>>)

\* The response of get_extracted_text(doc_id) over the mapping `store`.
LookupResponse(store, doc_id) ==
    IF doc_id \notin DOMAIN store
    THEN Response("getText", doc_id, 404, MsgNotFound, NoFilename, <<>>)
    ELSE Response("getText", doc_id, 200, <<>>, store[doc_id].filename, store[doc_id].text)

\* get_extracted_text(doc_id) (lines 92-105)
GetText(doc_id) ==
    /\ last' = LookupResponse(upload_store, doc_id)
    /\ UNCHANGED <<upload_store, storage, next_id, join_order, open_handles,
                   issued, tasks, looker>>

Next ==
    \/ \E filename \in Filenames, body \in Bodies : Upload(filename, body)
    \/ \E doc_id \in LookupIds : GetText(doc_id)

Spec == Init /\ [][Next]_vars

\* ------------------------------------------------------------------------
\* The handlers under concurrency.  upload_file is a coroutine on the event
\* loop: requests interleave at its one suspension point, await
\* file.close(), and the lookups, which the server runs on worker threads,
\* run between any two accesses to _upload_store.  An upload is cut where
\* it suspends and before its one access to the mapping; a lookup is cut at
\* each of its three reads of the mapping.

\* Requests the concurrent clients send: "n.txt" holding "a\r\n", "A.PDF"
\* holding a two-page document, "r.doc", and "n.txt" holding the byte 0xFF.
ConcRequests ==
    { [filename |-> Name(<<"n", ".", "t", "x", "t">>), body |-> <<97, 13, 10>>],
      [filename |-> Name(<<"A", ".", "P", "D", "F">>), body |-> <<37, 97, 98>>],
      [filename |-> Name(<<"r", ".", "d", "o", "c">>), body |-> <<>>],
      [filename |-> Name(<<"n", ".", "t", "x", "t">>), body |-> <<255>>] }

SetTask(t, task) == tasks' = [tasks EXCEPT ![t] = task]

\* Lines 51-71: identifier, validation and the write, up to await file.close().
StartUpload(t, filename, body) ==
    LET doc_id == next_id
        ext == DeriveExtension(filename)
        path == StoragePath(doc_id, ext)
    IN  /\ tasks[t].pc = "idle"
        /\ next_id' = next_id + 1
        /\ IF ext \notin ALLOWED_EXTENSIONS
           THEN /\ SetTask(t, Task("done", filename, doc_id, ext, <<>>,
                                   UploadResponse(doc_id, 400, InvalidTypeDetail(join_order))))
                /\ UNCHANGED storage
           ELSE \E c \in CopyOutcomes(body) :
                  /\ storage' = IF c.created THEN WriteFile(storage, path, c.written)
                                ELSE storage
                  /\ SetTask(t, Task(IF c.ok THEN "closing" ELSE "closing_failed",
                                     filename, doc_id, ext, <<>>, NoResponse))
        /\ UNCHANGED <<upload_store, join_order, open_handles, issued, last, looker>>

\* Lines 66-72 after the await: the HTTPException of the failed write leaves.
FailStore(t) ==
    /\ tasks[t].pc = "closing_failed"
    /\ SetTask(t, [tasks[t] EXCEPT !.pc = "done",
                      !.resp = UploadResponse(tasks[t].doc_id, 500, MsgCouldNotSave)])
    /\ UNCHANGED <<upload_store, storage, next_id, join_order, open_handles,
                   issued, last, looker>>

\* Line 76 after the await: extract_text_from_file on the stored file.
ExtractStep(t) ==
    LET task == tasks[t]
        x == ExtractText(storage[StoragePath(task.doc_id, task.ext)], task.ext)
    IN  /\ task.pc = "closing"
        /\ open_handles' = open_handles + x.leaked
        /\ SetTask(t, [task EXCEPT !.pc = IF x.ok THEN "extracted" ELSE "failed",
                                   !.text = x.text])
        /\ UNCHANGED <<upload_store, storage, next_id, join_order, issued, last, looker>>

\* Lines 77-82 and 88: the one store into the mapping, of the finished dict.
InsertStep(t) ==
    LET task == tasks[t]
        path == StoragePath(task.doc_id, task.ext)
    IN  /\ task.pc = "extracted"
        /\ upload_store' = StoreInsert(upload_store, task.doc_id,
                              UploadRecord(task.filename, path, task.ext, task.text))
        /\ SetTask(t, [task EXCEPT !.pc = "done",
                                   !.resp = UploadResponse(task.doc_id, 201, MsgUploaded)])
        /\ UNCHANGED <<storage, next_id, join_order, open_handles, issued, last, looker>>

\* Lines 83-86: the cleanup after a failed extraction.
CleanupStep(t) ==
    LET task == tasks[t]
        path == StoragePath(task.doc_id, task.ext)
    IN  /\ task.pc = "failed"
        /\ IF path \in DOMAIN storage
           THEN \E rm \in RemoveOutcomes :
                  /\ storage' = IF rm = "removed" THEN RemoveFile(storage, path) ELSE storage
                  /\ SetTask(t, [task EXCEPT !.pc = "done",
                          !.resp = UploadResponse(task.doc_id, 500,
                                      IF rm = "removed" THEN MsgExtractFailed ELSE MsgUnhandled)])
           ELSE /\ UNCHANGED storage
                /\ SetTask(t, [task EXCEPT !.pc = "done",
                          !.resp = UploadResponse(task.doc_id, 500, MsgExtractFailed)])
        /\ UNCHANGED <<upload_store, next_id, join_order, open_handles, issued, last, looker>>

\* Line 94: doc_id not in _upload_store
LookupCheck(doc_id) ==
    /\ looker.pc \in {"idle", "done"}
    /\ looker' = IF doc_id \notin DOMAIN upload_store
                 THEN Looker("done", doc_id, NoFilename,
                             Response("getText", doc_id, 404, MsgNotFound, NoFilename, <<>>))
                 ELSE Looker("found", doc_id, NoFilename, NoResponse)
    /\ UNCHANGED <<upload_store, storage, next_id, join_order, open_handles,
                   issued, last, tasks>>

\* A subscript of the mapping by a missing key raises KeyError, which the
\* server answers with a 500.
LookupKeyError(doc_id) ==
    Looker("done", doc_id, NoFilename,
           Response("getText", doc_id, 500, MsgUnhandled, NoFilename, <<>>))

\* Line 102: _upload_store[doc_id]["filename"]
LookupReadFilename ==
    /\ looker.pc = "found"
    /\ looker' = IF looker.doc_id \notin DOMAIN upload_store
                    \/ "filename" \notin DOMAIN upload_store[looker.doc_id]
                 THEN LookupKeyError(looker.doc_id)
                 ELSE Looker("has_filename", looker.doc_id,
                             upload_store[looker.doc_id].filename, NoResponse)
    /\ UNCHANGED <<upload_store, storage, next_id, join_order, open_handles,
                   issued, last, tasks>>

\* Line 103: _upload_store[doc_id]["text"], and the response.
LookupReadText ==
    /\ looker.pc = "has_filename"
    /\ looker' = IF looker.doc_id \notin DOMAIN upload_store
                    \/ "text" \notin DOMAIN upload_store[looker.doc_id]
                 THEN LookupKeyError(looker.doc_id)
                 ELSE Looker("done", looker.doc_id, looker.filename,
                             Response("getText", looker.doc_id, 200, <<>>, looker.filename,
                                      upload_store[looker.doc_id].text))
    /\ UNCHANGED <<upload_store, storage, next_id, join_order, open_handles,
                   issued, last, tasks>>

ConcNext ==
    \/ \E t \in 1..MaxUploads, r \in ConcRequests : StartUpload(t, r.filename, r.body)
    \/ \E t \in 1..MaxUploads : FailStore(t)
    \/ \E t \in 1..MaxUploads : ExtractStep(t)
    \/ \E t \in 1..MaxUploads : InsertStep(t)
    \/ \E t \in 1..MaxUploads : CleanupStep(t)
    \/ \E doc_id \in LookupIds : LookupCheck(doc_id)
    \/ LookupReadFilename
    \/ LookupReadText

ConcSpec == Init /\ [][ConcNext]_vars

\* ------------------------------------------------------------------------
\* Properties

TXT == <<"t", "x", "t">>

\* The file of an upload, if the storage directory holds one.
FileOf(doc_id) == StoragePath(doc_id, issued[doc_id].ext)

HasFile(doc_id) == FileOf(doc_id) \in DOMAIN storage

\* Some file in the storage directory carries the identifier in its name.
HasAnyFile(doc_id) == \E q \in DOMAIN storage : q.id = doc_id

ExtractionFailed(doc_id) == issued[doc_id].wrote /\ ~issued[doc_id].extracted

\* C1, as stated: an identifier is a key of the mapping iff the upload's file
\* was written and its extraction succeeded, and after an upload whose
\* extraction failed there is no record and no file {id}.{extension}.
C1_FailedExtractionLeavesNoFile ==
    /\ DOMAIN upload_store \subseteq DOMAIN issued
    /\ \A d \in DOMAIN issued :
          /\ (d \in DOMAIN upload_store) <=> (issued[d].wrote /\ issued[d].extracted)
          /\ ExtractionFailed(d) => d \notin DOMAIN upload_store /\ ~HasFile(d)

\* C1, amended: an identifier is a key of the mapping iff the upload's file
\* was written and its extraction succeeded (and then the file is in
\* storage); after an upload whose extraction failed there is no record, and
\* the file is gone whenever os.remove did not itself fail.
C1_RecordIffWrittenAndExtracted ==
    /\ DOMAIN upload_store \subseteq DOMAIN issued
    /\ \A d \in DOMAIN issued :
          /\ (d \in DOMAIN upload_store) <=> (issued[d].wrote /\ issued[d].extracted)
          /\ d \in DOMAIN upload_store => HasFile(d)
          /\ ExtractionFailed(d) =>
                /\ d \notin DOMAIN upload_store
                /\ issued[d].removal = "removed" => ~HasFile(d)

\* An upload whose extraction failed and whose file was removed, beside an
\* upload that succeeded.
C1_Witness ==
    \E d, e \in DOMAIN issued :
        /\ ExtractionFailed(d) /\ issued[d].removal = "removed" /\ ~HasFile(d)
        /\ e \in DOMAIN upload_store /\ HasFile(e)

\* What the claims call the extension of a filename: the lower-cased part
\* after its last ".", and nothing when the filename is absent or has no ".".
ClaimedExtension(filename) ==
    IF ~filename.given \/ DotPositions(filename.chars) = {} THEN <<>>
    ELSE Lower(SubSeq(filename.chars, Max(DotPositions(filename.chars)) + 1,
                      Len(filename.chars)))

\* C2: every upload whose filename has an extension outside {pdf, txt}, or
\* no extension, or is absent, is answered 400 and leaves no file and no
\* record.
C2_InvalidExtensionRejected ==
    \A d \in DOMAIN issued :
        ClaimedExtension(issued[d].filename) \notin ALLOWED_EXTENSIONS =>
            /\ issued[d].resp.status = 400
            /\ ~HasAnyFile(d)
            /\ d \notin DOMAIN upload_store

\* C3: the extension upload derives is the lower-cased part after the last
\* "." of the filename, and is empty when the filename is absent or holds
\* no ".".
C3_DerivedExtension ==
    \A d \in DOMAIN issued : issued[d].ext = ClaimedExtension(issued[d].filename)

\* C4: getText on a txt upload whose content C, the bytes upload wrote to the
\* stored file unchanged, is valid UTF-8 returns extracted_text equal to C
\* decoded, with no transformation.
C4_TxtTextIsContent ==
    (last.op = "getText" /\ last.status = 200
       /\ upload_store[last.doc_id].extension = TXT) =>
        LET content == storage[upload_store[last.doc_id].filepath]
        IN  Utf8Decode(content).ok /\ last.text = Utf8Decode(content).text

Succeeded(doc_id) == doc_id \in DOMAIN issued /\ issued[doc_id].resp.status = 201

\* C5: getText answers 200 with the filename and text recorded at upload
\* time iff the identifier was returned by an earlier successful upload, and
\* 404 for every other identifier; the records of the mapping stay as the
\* uploads made them.
C5_LookupIffSucceeded ==
    /\ \A d \in DOMAIN upload_store :
          /\ Succeeded(d)
          /\ upload_store[d] = UploadRecord(issued[d].filename, FileOf(d),
                                            issued[d].ext, issued[d].text)
    /\ \A d \in DOMAIN issued : Succeeded(d) => d \in DOMAIN upload_store
    /\ last.op = "getText" =>
          IF Succeeded(last.doc_id)
          THEN /\ last.status = 200
               /\ last.filename = issued[last.doc_id].filename
               /\ last.text = issued[last.doc_id].text
          ELSE last.status = 404 /\ last.detail = MsgNotFound

\* A lookup answered 200 for the first upload after a later upload failed.
C5_Witness ==
    /\ last.op = "getText" /\ last.status = 200 /\ last.doc_id = 1
    /\ \E d \in DOMAIN issued : d > 1 /\ ~Succeeded(d)

\* C6: after an upload whose copy to the storage path failed, no file
\* {id}.{extension} is in storage and no record is in the mapping.
C6_FailedCopyLeavesNoFile ==
    \A d \in DOMAIN issued :
        issued[d].resp.detail = MsgCouldNotSave =>
            ~HasFile(d) /\ d \notin DOMAIN upload_store

\* C7: when extraction fails and the deletion of the file fails too, the
\* caller still receives the extraction failure: 500 with the detail
\* "Failed to extract text from file.".
C7_RemoveFailureNotSurfaced ==
    \A d \in DOMAIN issued :
        (ExtractionFailed(d) /\ issued[d].removal = "oserror") =>
            issued[d].resp.status = 500 /\ issued[d].resp.detail = MsgExtractFailed

\* C8: no extraction ends with a document, page or file handle still open.
C8_NoHandleLeftOpen == open_handles = 0

\* C9: every upload rejected for its extension is answered 400 with exactly
\* "Invalid file type. Only PDF, TXT files are allowed.".
C9_InvalidTypeDetailIsFixed ==
    \A d \in DOMAIN issued :
        issued[d].resp.status = 400 =>
            issued[d].resp.detail =
                <<"Invalid file type. Only ", "P", "D", "F", ",", " ", "T", "X", "T",
                  " files are allowed.">>

\* C10: under every interleaving, uploads hold distinct identifiers, every
\* upload that completed successfully has its own complete record in the
\* mapping, the mapping holds nothing but complete records, and a finished
\* lookup was answered 404 or with the filename and text of the record.
C10_ConcurrentUploadsKeepRecords ==
    /\ \A t, u \in DOMAIN tasks :
          (t # u /\ tasks[t].pc # "idle" /\ tasks[u].pc # "idle") =>
              tasks[t].doc_id # tasks[u].doc_id
    /\ \A t \in DOMAIN tasks :
          (tasks[t].pc = "done" /\ tasks[t].resp.status = 201) =>
              /\ tasks[t].doc_id \in DOMAIN upload_store
              /\ upload_store[tasks[t].doc_id] =
                    UploadRecord(tasks[t].filename,
                                 StoragePath(tasks[t].doc_id, tasks[t].ext),
                                 tasks[t].ext, tasks[t].text)
    /\ \A d \in DOMAIN upload_store :
          DOMAIN upload_store[d] = {"filename", "filepath", "extension", "text"}
    /\ looker.pc = "done" =>
          \/ looker.resp.status = 404
          \/ /\ looker.resp.status = 200
             /\ looker.doc_id \in DOMAIN upload_store
             /\ looker.resp.filename = upload_store[looker.doc_id].filename
             /\ looker.resp.text = upload_store[looker.doc_id].text

\* Two uploads have completed with their records while a lookup that began
\* before the second one's insert was answered 404 for its identifier.
C10_Witness ==
    \E t, u \in DOMAIN tasks :
        /\ t # u
        /\ tasks[t].pc = "done" /\ tasks[t].resp.status = 201
        /\ tasks[u].pc = "done" /\ tasks[u].resp.status = 201
        /\ tasks[t].ext # tasks[u].ext
        /\ looker.pc = "done" /\ looker.doc_id = tasks[u].doc_id
        /\ looker.resp.status = 404

====
